---- MODULE Spec2Model ----
(***************************************************************************)
(* amex_to_gnucash.py: one batch run that reads a card statement (HTML),   *)
(* reads a food-delivery order history (HTML), and writes a categorized    *)
(* CSV.  Texts that the program searches (descriptions, keywords, the      *)
(* status column) are sequences of one-character strings, so that          *)
(* upper(), lower() and the substring test `in' are computed, not assumed. *)
(* Amounts are integers in thousandths of a pound.                         *)
(***************************************************************************)
EXTENDS Integers, Sequences, FiniteSets, TLC

(* ---------------------------------------------------------------- bounds *)
\* longest statement (number of transaction rows) that is explored
MaxRows == 3
\* longest delivery history (number of order items) that is explored
MaxItems == 2
\* longest statement of unparsable rows that is explored
MaxErrorRows == 2

(* --------------------------------------------------------- configuration *)
CREDIT_CARD_ACCOUNT == "Total:Passivo:Cartão de Crédito:Amex"
DEFAULT_EXPENSE_ACCOUNT == "Não classificado"
FOOD_ACCOUNT == "Despesas:Comida"

ACCOUNT_RULES ==
  <<
    [account |-> "Despesas:Cachorro",
     keywords |-> <<<<"G","R","O","O","M","I","N","G">>>>],
    [account |-> "Despesas:Celular",
     keywords |-> <<<<"S","M","A","R","T","Y">>>>],
    [account |-> "Despesas:Diversão",
     keywords |-> <<<<"Y","O","U","T","U","B","E","P","R","E","M","I","U","M">>>>],
    [account |-> "Despesas:Educação",
     keywords |-> <<<<"R","H","O","D","E","S"," ","A","V","E","N","U","E">>,
                    <<"B","R","E","E","Z","Y"," ","C","L","U","B">>>>],
    [account |-> "Despesas:Saúde",
     keywords |-> <<<<"B","O","O","T","S">>,
                    <<"M","A","S","S","A","G","E">>,
                    <<"P","H","A","R","M","A","C","Y">>,
                    <<"F","U","S","S","Y">>,
                    <<"S","U","N","D","A","Y","S"," ","I","N","S","U","R","A","N","C","E">>>>],
    [account |-> "Despesas:Supermercado",
     keywords |-> <<<<"P","A","C","T","C","O","F","F","E","E">>,
                    <<"W","A","I","T","R","O","S","E">>,
                    <<"S","A","I","N","S","B","U","R","Y">>,
                    <<"O","C","A","D","O">>,
                    <<"A","S","T","R","I","D"," ","B","A","K","E","R","Y">>,
                    <<"M","O","R","R","I","S","O","N","S">>,
                    <<"A","S","D","A">>,
                    <<"G","A","I","L">>,
                    <<"B","R","A","Z","I","L","I","A","N"," ","C","E","N","T","R","E">>>>],
    [account |-> "Despesas:Vestuário",
     keywords |-> <<<<"U","N","I","Q","L","O">>,
                    <<"H","A","I","R","-","T","R","I","B","E">>>>],
    [account |-> "Total:Ativo:Conta corrente:Monzo",
     keywords |-> <<<<"P","A","Y","M","E","N","T"," ","R","E","C","E","I","V","E","D">>>>]
  >>

HEADER ==
  <<"Date", "Description", "Account", "Amount Debit", "Amount Credit",
    "Transfer Account">>

(* ------------------------------------------------------- Python's values *)
\* find() returns None when the element is absent; Some(x) is a found value
None == <<>>
Some(x) == <<x>>

(* ------------------------------------------------------------------ text *)
LowerChars ==
  <<"a","b","c","d","e","f","g","h","i","j","k","l","m",
    "n","o","p","q","r","s","t","u","v","w","x","y","z">>
UpperChars ==
  <<"A","B","C","D","E","F","G","H","I","J","K","L","M",
    "N","O","P","Q","R","S","T","U","V","W","X","Y","Z">>

\* the upper-case letter of each lower-case letter, and the converse
UpperOf ==
  [c \in {LowerChars[j] : j \in 1..26} |->
     UpperChars[CHOOSE j \in 1..26 : LowerChars[j] = c]]
LowerOf ==
  [c \in {UpperChars[j] : j \in 1..26} |->
     LowerChars[CHOOSE j \in 1..26 : UpperChars[j] = c]]

\* str.upper(), one character at a time
upper(s) ==
  [i \in 1..Len(s) |-> IF s[i] \in DOMAIN UpperOf THEN UpperOf[s[i]] ELSE s[i]]

\* str.lower(), one character at a time
lower(s) ==
  [i \in 1..Len(s) |-> IF s[i] \in DOMAIN LowerOf THEN LowerOf[s[i]] ELSE s[i]]

\* Python's `k in s' on strings: k occurs in s as a contiguous substring
Contains(k, s) ==
  \E i \in 1..(Len(s) - Len(k) + 1) : SubSeq(s, i, i + Len(k) - 1) = k

DELIVEROO == <<"D","E","L","I","V","E","R","O","O">>
DeliverooPrefix == <<"D","e","l","i","v","e","r","o","o",":"," ">>
PendingWord == <<"p","e","n","d","i","n","g">>

(* ----------------------------------------------------------------- dates *)
MonthAbbr ==
  <<"Jan","Feb","Mar","Apr","May","Jun","Jul","Aug","Sep","Oct","Nov","Dec">>
MonthName ==
  <<"January","February","March","April","May","June","July","August",
    "September","October","November","December">>

IsLeap(y) == ((y % 4) = 0 /\ (y % 100) /= 0) \/ (y % 400) = 0

DaysInMonth(m, y) ==
  IF m = 2 THEN (IF IsLeap(y) THEN 29 ELSE 28)
  ELSE IF m \in {4, 6, 9, 11} THEN 30 ELSE 31

\* datetime.strptime(text, fmt): names is the month table of the format
\* (%b or %B); the result is None where strptime raises ValueError
strptime(d, mon, y, names) ==
  IF /\ \E m \in 1..12 : names[m] = mon
     /\ y \in 1..9999
     /\ d >= 1
     /\ d <= DaysInMonth(CHOOSE m \in 1..12 : names[m] = mon, y)
  THEN Some([y |-> y, m |-> CHOOSE m \in 1..12 : names[m] = mon, d |-> d])
  ELSE None

DigitStr == <<"0","1","2","3","4","5","6","7","8","9">>
Digits2(n) == DigitStr[((n \div 10) % 10) + 1] \o DigitStr[(n % 10) + 1]
Digits4(n) == Digits2(n \div 100) \o Digits2(n % 100)

\* date_obj.strftime('%Y-%m-%d')
strftime(date) == Digits4(date.y) \o "-" \o Digits2(date.m) \o "-" \o Digits2(date.d)

(* --------------------------------------------------------------- amounts *)
\* a float or a Decimal: kind "num" carries thousandths in v, kind "inf"
\* is a value float() accepts ("inf", "1e30") that quantize cannot represent
Number(v) == [kind |-> "num", v |-> v]
Infinite == [kind |-> "inf", v |-> 0]
\* the empty CSV field ""
Blank == [kind |-> "blank", v |-> 0]

\* abs(amount_value)
Abs(a) == IF a.kind = "num" /\ a.v < 0 THEN Number(0 - a.v) ELSE a

\* amount_value < 0
IsNegative(a) == a.kind = "num" /\ a.v < 0

\* Decimal(str(x)).quantize(Decimal('0.01'), rounding=ROUND_HALF_UP) for a
\* finite x >= 0: thousandths rounded half-up to a whole number of pence
Quantize(v) == ((v + 5) \div 10) * 10

(* ------------------------------------------------ categorization (91-117) *)
\* any(keyword in description.upper() for keyword in keywords), given
\* description.upper()
AnyKeyword(keywords, upper_description) ==
  \E j \in 1..Len(keywords) : Contains(keywords[j], upper_description)

\* the loop over ACCOUNT_RULES.items() from rule i on: the account of the
\* first rule, in declaration order, one of whose keywords occurs in the
\* upper-cased description; None when no rule matches
RECURSIVE ScanRules(_, _)
ScanRules(i, upper_description) ==
  IF i > Len(ACCOUNT_RULES) THEN None
  ELSE IF AnyKeyword(ACCOUNT_RULES[i].keywords, upper_description)
       THEN Some(ACCOUNT_RULES[i].account)
       ELSE ScanRules(i + 1, upper_description)

\* the scan with the last matching rule winning
LastRule(description) ==
  LET matching == {i \in 1..Len(ACCOUNT_RULES) :
                     AnyKeyword(ACCOUNT_RULES[i].keywords, upper(description))}
  IN  IF matching = {} THEN None
      ELSE Some(ACCOUNT_RULES[CHOOSE i \in matching : \A h \in matching : h <= i].account)

FirstRule(description) == ScanRules(1, upper(description))

\* list.pop(0) that leaves the element in the list
pop0_keep(names) == [value |-> Head(names), rest |-> names]

\* list.pop() in place of list.pop(0): the last element is taken
pop0_last(names) ==
  [value |-> names[Len(names)], rest |-> SubSeq(names, 1, Len(names) - 1)]

\* list.pop(0): the element taken and the list that is left
pop0(names) == [value |-> Head(names), rest |-> Tail(names)]

\* the lookup key built for a DELIVEROO line
LookupKey(date_obj, amount_value) == <<date_obj, Quantize(amount_value.v)>>

\* raised: quantize signalled decimal.InvalidOperation (not a ValueError);
\* consumed: the key whose list was popped, None when nothing was popped
get_account_and_description(description, date_obj, amount_value, deliveroo_orders) ==
  LET is_deliveroo == Contains(DELIVEROO, upper(description))
      raises       == is_deliveroo /\ amount_value.kind = "inf"
      lookup_key   == LookupKey(date_obj, amount_value)
      hit          == /\ is_deliveroo
                      /\ ~raises
                      /\ lookup_key \in DOMAIN deliveroo_orders
                      /\ deliveroo_orders[lookup_key] /= <<>>
      popped       == pop0(deliveroo_orders[lookup_key])
      described    == IF hit THEN DeliverooPrefix \o popped.value ELSE description
      account      == IF is_deliveroo THEN FOOD_ACCOUNT ELSE DEFAULT_EXPENSE_ACCOUNT
      rule         == FirstRule(described)
  IN  [raised          |-> raises,
       description     |-> described,
       account         |-> IF rule /= None THEN rule[1] ELSE account,
       deliveroo_orders |-> IF hit
                            THEN [deliveroo_orders EXCEPT ![lookup_key] = popped.rest]
                            ELSE deliveroo_orders,
       consumed        |-> IF hit THEN Some(lookup_key) ELSE None]

(* ------------------------------------------------- statement rows (157-206) *)
\* the status test without lower()
is_pending_exact(status_text) == Contains(PendingWord, status_text)

\* 'pending' in status_text.lower()
is_pending(status_text) == Contains(PendingWord, lower(status_text))

\* f" ({initials})" when the badge exists and its text is not empty
supp_card_initials(badge) ==
  IF badge /= None /\ badge[1] /= <<>>
  THEN <<" ", "(">> \o badge[1] \o <<")">>
  ELSE <<>>

\* the row without its transfer account
output_row_short(date_obj, final_description, expense_account, amount_value) ==
  <<strftime(date_obj),
    final_description,
    expense_account,
    IF IsNegative(amount_value) THEN Blank ELSE amount_value,
    IF IsNegative(amount_value) THEN Abs(amount_value) ELSE Blank>>

\* the list handed to writer.writerow for a transaction
output_row(date_obj, final_description, expense_account, amount_value) ==
  <<strftime(date_obj),
    final_description,
    expense_account,
    IF IsNegative(amount_value) THEN Blank ELSE amount_value,
    IF IsNegative(amount_value) THEN Abs(amount_value) ELSE Blank,
    CREDIT_CARD_ACCOUNT>>

\* the body of the loop for one <tr>, given the year and the lookup table.
\* outcome: "short" (fewer than five <td>, silently passed over),
\* "pending", "skipped" (AttributeError or ValueError caught), "written",
\* "raised" (an exception the except clause does not name)
process_row(trx, year, deliveroo_orders) ==
  LET untouched(outcome, printed) ==
        [outcome |-> outcome, printed |-> printed, description |-> None,
         row |-> None, deliveroo_orders |-> deliveroo_orders, consumed |-> None]
      date_obj == IF trx.date = None THEN None
                  ELSE strptime(trx.date[1].d, trx.date[1].mon, year, MonthAbbr)
  IN  IF trx.ncols < 5 THEN untouched("short", <<>>)
      ELSE IF is_pending(trx.status) THEN
        untouched("pending",
                  IF trx.a /= None THEN <<"Skipping pending transaction">>
                  ELSE <<"Skipping a pending transaction (description not available)">>)
      ELSE IF \/ date_obj = None
              \/ trx.a = None
              \/ trx.amount = None
              \/ trx.amount[1].kind = "bad"
           THEN untouched("skipped", <<"Skipping a row due to a parsing error">>)
      ELSE
        LET amount_value == trx.amount[1]
            r == get_account_and_description(trx.a[1], date_obj[1],
                                             Abs(amount_value), deliveroo_orders)
        IN  IF r.raised THEN untouched("raised", <<"Traceback: decimal.InvalidOperation">>)
            ELSE [outcome |-> "written", printed |-> <<>>,
                  description |-> Some(r.description),
                  row |-> Some(output_row(date_obj[1],
                                          r.description \o supp_card_initials(trx.badge),
                                          r.account, amount_value)),
                  deliveroo_orders |-> r.deliveroo_orders,
                  consumed |-> r.consumed]

(* ---------------------------------------------- delivery history (62-86) *)
\* the body of the loop for one <li>.  outcome: "added", "skipped"
\* (AttributeError, ValueError or IndexError caught), "raised" (Decimal()
\* signalled decimal.InvalidOperation, which the except clause does not name)
parse_item(item, deliveroo_orders) ==
  LET untouched(outcome) ==
        [outcome |-> outcome, deliveroo_orders |-> deliveroo_orders]
      date_obj == strptime(item.date.d, item.date.mon, item.date.y, MonthName)
  IN  IF item.name = None THEN untouched("skipped")
      ELSE IF item.parts /= 2 THEN untouched("skipped")
      ELSE IF item.amount.kind = "bad" THEN untouched("raised")
      ELSE IF date_obj = None THEN untouched("skipped")
      ELSE
        LET lookup_key == <<date_obj[1], item.amount.v>>
            before == IF lookup_key \in DOMAIN deliveroo_orders
                      THEN deliveroo_orders[lookup_key] ELSE <<>>
        IN  [outcome |-> "added",
             deliveroo_orders |->
               [k \in DOMAIN deliveroo_orders \cup {lookup_key} |->
                  IF k = lookup_key THEN Append(before, item.name[1])
                  ELSE deliveroo_orders[k]]]

\* sum(len(v) for v in deliveroo_orders.values())
RECURSIVE SumLen(_, _)
SumLen(orders, keys) ==
  IF keys = {} THEN 0
  ELSE LET k == CHOOSE k \in keys : TRUE
       IN  Len(orders[k]) + SumLen(orders, keys \ {k})

(* ---------------------------------------------------------------- inputs *)
\* len(sys.argv) of the invocations explored
ArgCounts == {2, 3}

\* datetime.now().year of the runs explored
CurrentYears == {2026}

T_DELIVEROO == <<"D","E","L","I","V","E","R","O","O">>
T_deliveroo == <<"d","e","l","i","v","e","r","o","o">>
T_BootsAsda == <<"B","o","o","t","s"," ","A","s","d","a">>
T_TFL       == <<"T","F","L">>
T_Wok       == <<"W","o","k">>
T_Gail      == <<"G","a","i","l">>
T_Pending   == <<"P","e","n","d","i","n","g">>
T_TO        == <<"T","O">>

Jul13 == [d |-> 13, mon |-> "Jul"]
Jul14 == [d |-> 14, mon |-> "Jul"]
Feb30 == [d |-> 30, mon |-> "Feb"]

\* a <tr> as the loop reads it: the number of <td>, the text of the status
\* column, the date <div>, the description <a>, the badge <span> and the
\* amount <p> (None where find() finds no such element)
Row(status, date, a, badge, amount) ==
  [ncols |-> 5, status |-> status, date |-> date, a |-> a, badge |-> badge,
   amount |-> amount]

Settled(date, text, badge, amount) ==
  Row(<<>>, Some(date), Some(text), badge, Some(amount))

ShortRow ==
  [ncols |-> 3, status |-> <<>>, date |-> Some(Jul13), a |-> Some(T_TFL),
   badge |-> None, amount |-> None]

\* well-formed and pending rows: delivery lines with equal and unequal
\* (date, amount), an amount that rounds up to 20.00, a credit, a line
\* with keywords of two accounts
MatchRows ==
  { Settled(Jul13, T_DELIVEROO, None, Number(20000)),
    Settled(Jul13, T_deliveroo, Some(T_TO), Number(19995)),
    Settled(Jul14, T_DELIVEROO, None, Number(20000)),
    Row(T_Pending, Some(Jul13), Some(T_DELIVEROO), None, Some(Number(20000))),
    Settled(Jul13, T_TFL, None, Number(0 - 20000)),
    Settled(Jul13, T_BootsAsda, None, Number(4500)) }

\* rows the loop cannot parse, next to one well-formed row
ErrorRows ==
  { ShortRow,
    Row(<<>>, None, Some(T_DELIVEROO), None, Some(Number(20000))),
    Row(<<>>, Some(Feb30), Some(T_DELIVEROO), None, Some(Number(20000))),
    Row(<<>>, Some(Jul13), None, None, Some(Number(20000))),
    Row(<<>>, Some(Jul13), Some(T_DELIVEROO), None, None),
    Row(<<>>, Some(Jul13), Some(T_DELIVEROO), None, Some([kind |-> "bad", v |-> 0])),
    Row(<<>>, Some(Jul13), Some(T_DELIVEROO), None, Some(Infinite)),
    Row(T_Pending, Some(Jul13), None, None, None),
    Settled(Jul13, T_BootsAsda, None, Number(4500)) }

\* all sequences over S of length 0..n
RECURSIVE SeqsUpTo(_, _)
SeqsUpTo(S, n) ==
  IF n = 0 THEN {<<>>}
  ELSE LET shorter == SeqsUpTo(S, n - 1)
       IN  shorter \cup {Append(s, x) : s \in {t \in shorter : Len(t) = n - 1}, x \in S}

\* an <li>: the first <p> (None when there is none), the number of parts
\* the last <p> splits into at the bullet, the amount text and the date text
Item(name, parts, amount, date) ==
  [name |-> name, parts |-> parts, amount |-> amount, date |-> date]

July13 == [d |-> 13, mon |-> "July", y |-> 2025]

\* well-formed items: two restaurants under one (date, amount)
GoodItems ==
  { Item(Some(T_Wok), 2, Number(20000), July13),
    Item(Some(T_Gail), 2, Number(20000), July13) }

\* well-formed items next to items the loop cannot parse: no <p>, no
\* separator, an abbreviated month, an amount that is no number
Items ==
  { Item(Some(T_Wok), 2, Number(20000), July13),
    Item(Some(T_Gail), 2, Number(20000), July13),
    Item(None, 1, Number(20000), July13),
    Item(Some(T_Wok), 1, Number(20000), July13),
    Item(Some(T_Wok), 2, Number(20000), [d |-> 13, mon |-> "Jul", y |-> 2025]),
    Item(Some(T_Wok), 2, [kind |-> "bad", v |-> 0], July13) }

\* what open(amex_path) and BeautifulSoup(f) yield: a parsed statement has
\* the year of its 'saved from url' comment (None when there is none) and
\* the rows of its transaction <tbody> (None when there is no such <tbody>)
AmexMissing == [status |-> "missing", soup |-> None]
AmexUnreadable == [status |-> "unreadable", soup |-> None]
Statement(comment, tbody) ==
  [status |-> "ok", soup |-> Some([comment |-> comment, tbody |-> tbody])]

\* what open(deliveroo_html_path) and BeautifulSoup(f) yield
HistoryMissing == [status |-> "missing", items |-> <<>>]
HistoryUnreadable == [status |-> "unreadable", items |-> <<>>]
History(items) == [status |-> "ok", items |-> items]

\* the pairs (statement file, delivery-history file) explored:
\* statements of well-formed and pending rows with well-formed histories;
\* statements of unparsable rows with an absent, empty or one-order history;
\* absent, table-less, empty and one-row statements with every history
MatchingRuns ==
  {Statement(Some(2025), Some(t)) : t \in SeqsUpTo(MatchRows, MaxRows)}
    \X {History(s) : s \in SeqsUpTo(GoodItems, MaxItems)}

RowErrorRuns ==
  {Statement(c, Some(t)) : c \in {None, Some(2025)}, t \in SeqsUpTo(ErrorRows, MaxErrorRows)}
    \X {HistoryMissing, HistoryUnreadable, History(<<>>),
        History(<<Item(Some(T_Wok), 2, Number(20000), July13)>>)}

FileErrorRuns ==
  ({AmexMissing, AmexUnreadable}
     \cup {Statement(c, tb) :
             c \in {None, Some(2025)},
             tb \in {None, Some(<<>>),
                     Some(<<Settled(Jul13, T_DELIVEROO, None, Number(20000))>>)}})
    \X ({HistoryMissing, HistoryUnreadable}
          \cup {History(s) : s \in SeqsUpTo(Items, MaxItems)})

Runs == MatchingRuns \cup RowErrorRuns \cup FileErrorRuns

(* ----------------------------------------------------------------- state *)
VARIABLES
  amex_file,         \* the statement file on disk
  deliveroo_file,    \* the delivery-history file on disk
  pc,                \* the statement the run is at
  opens,             \* the paths handed to open(), in call order
  soup,              \* the parsed statement, None before it is read
  year,              \* the statement year, None before it is determined
  order_list_items,  \* the <li> items of the delivery history
  item_idx,          \* the next item of order_list_items
  deliveroo_orders,  \* (date, amount) -> restaurant names not yet used
  transactions,      \* the <tr> rows of the statement, in document order
  trx_idx,           \* the next row of reversed(transactions)
  csvfile,           \* the rows written to the output file
  stdout,            \* the messages printed (a traceback included)
  exit_status,       \* None while running, Some(status) once ended
  item_log,          \* history: the outcome of each item parsed
  row_log            \* history: the outcome of each row processed

vars ==
  <<amex_file, deliveroo_file, pc, opens, soup, year, order_list_items, item_idx, deliveroo_orders,
    transactions, trx_idx, csvfile, stdout, exit_status, item_log, row_log>>

Init ==
  /\ \E run \in Runs : amex_file = run[1] /\ deliveroo_file = run[2]
  /\ pc = "main"
  /\ opens = <<>>
  /\ soup = None
  /\ year = None
  /\ order_list_items = <<>>
  /\ item_idx = 1
  /\ deliveroo_orders = <<>>
  /\ transactions = <<>>
  /\ trx_idx = 0
  /\ csvfile = <<>>
  /\ stdout = <<>>
  /\ exit_status = None
  /\ item_log = <<>>
  /\ row_log = <<>>

\* the run ends with the given status after printing msgs
Ends(status, msgs) ==
  /\ pc' = "done"
  /\ exit_status' = Some(status)
  /\ stdout' = stdout \o msgs

\* main(): the argument count is checked before anything is opened
Main ==
  /\ pc = "main"
  /\ \E n \in ArgCounts :
       IF n /= 3
       THEN Ends(1, <<"Usage: python amex_to_gnucash.py <amex> <deliveroo>">>)
       ELSE pc' = "open_amex" /\ UNCHANGED <<exit_status, stdout>>
  /\ UNCHANGED <<amex_file, deliveroo_file, opens, soup, year, order_list_items, item_idx, deliveroo_orders,
                 transactions, trx_idx, csvfile, item_log, row_log>>

\* process_html_file, lines 123-131: open and parse the statement
OpenAmex ==
  /\ pc = "open_amex"
  /\ opens' = Append(opens, "amex_path")
  /\ CASE amex_file.status = "missing" ->
         /\ Ends(1, <<"Error: The Amex file was not found">>)
         /\ UNCHANGED soup
       [] amex_file.status = "unreadable" ->
         /\ Ends(1, <<"An error occurred while reading the Amex file">>)
         /\ UNCHANGED soup
       [] OTHER ->
         /\ soup' = amex_file.soup
         /\ pc' = "parse_year"
         /\ UNCHANGED <<exit_status, stdout>>
  /\ UNCHANGED <<amex_file, deliveroo_file, year, order_list_items, item_idx, deliveroo_orders,
                 transactions, trx_idx, csvfile, item_log, row_log>>

\* the year step going on to the table without loading the delivery history
ParseYear_skip ==
  /\ pc = "parse_year"
  /\ IF soup[1].comment /= None
     THEN year' = soup[1].comment /\ UNCHANGED stdout
     ELSE /\ \E y \in CurrentYears : year' = Some(y)
          /\ stdout' = Append(stdout, "Warning: Could not find the statement year")
  /\ pc' = "find_table"
  /\ UNCHANGED <<amex_file, deliveroo_file, opens, soup, order_list_items, item_idx, deliveroo_orders,
                 transactions, trx_idx, csvfile, exit_status, item_log, row_log>>

\* parse_year_from_comment and lines 133-135: the result is never empty,
\* so the exit on `not year' is never taken
ParseYear ==
  /\ pc = "parse_year"
  /\ IF soup[1].comment /= None
     THEN year' = soup[1].comment /\ UNCHANGED stdout
     ELSE /\ \E y \in CurrentYears : year' = Some(y)
          /\ stdout' = Append(stdout, "Warning: Could not find the statement year")
  /\ pc' = "open_deliveroo"
  /\ UNCHANGED <<amex_file, deliveroo_file, opens, soup, order_list_items, item_idx, deliveroo_orders,
                 transactions, trx_idx, csvfile, exit_status, item_log, row_log>>

\* parse_deliveroo_orders, lines 49-60: open and parse the delivery history
OpenDeliveroo ==
  /\ pc = "open_deliveroo"
  /\ opens' = Append(opens, "deliveroo_path")
  /\ CASE deliveroo_file.status = "missing" ->
         /\ stdout' = Append(stdout, "Warning: Deliveroo orders file not found")
         /\ pc' = "find_table"
         /\ UNCHANGED order_list_items
       [] deliveroo_file.status = "unreadable" ->
         /\ stdout' = Append(stdout, "Warning: Could not read Deliveroo orders file")
         /\ pc' = "find_table"
         /\ UNCHANGED order_list_items
       [] OTHER ->
         /\ order_list_items' = deliveroo_file.items
         /\ pc' = "items"
         /\ UNCHANGED stdout
  /\ UNCHANGED <<amex_file, deliveroo_file, soup, year, item_idx, deliveroo_orders, transactions, trx_idx,
                 csvfile, exit_status, item_log, row_log>>

\* parse_deliveroo_orders, lines 62-86: one pass of the loop over the items
ParseItem ==
  /\ pc = "items"
  /\ item_idx <= Len(order_list_items)
  /\ \E r \in {parse_item(order_list_items[item_idx], deliveroo_orders)} :
         /\ item_log' = Append(item_log, r.outcome)
         /\ deliveroo_orders' = r.deliveroo_orders
         /\ item_idx' = item_idx + 1
         /\ CASE r.outcome = "raised" ->
                   Ends(1, <<"Traceback: decimal.InvalidOperation">>)
              [] r.outcome = "skipped" ->
                   /\ stdout' = Append(stdout, "Skipping a Deliveroo order item due to parsing error")
                   /\ UNCHANGED <<pc, exit_status>>
              [] OTHER -> UNCHANGED <<pc, exit_status, stdout>>
  /\ UNCHANGED <<amex_file, deliveroo_file, opens, soup, year, order_list_items, transactions, trx_idx,
                 csvfile, row_log>>

\* parse_deliveroo_orders, lines 88-89: the loop is over
EndItems ==
  /\ pc = "items"
  /\ item_idx > Len(order_list_items)
  /\ stdout' = Append(stdout, "Found " \o Digits2(SumLen(deliveroo_orders, DOMAIN deliveroo_orders))
                                \o " Deliveroo orders")
  /\ pc' = "find_table"
  /\ UNCHANGED <<amex_file, deliveroo_file, opens, soup, year, order_list_items, item_idx, deliveroo_orders,
                 transactions, trx_idx, csvfile, exit_status, item_log, row_log>>

\* the table step with the output opened before the table is looked for
FindTable_open_first ==
  /\ pc = "find_table"
  /\ opens' = Append(opens, "output_path")
  /\ csvfile' = <<HEADER>>
  /\ IF soup[1].tbody = None
     THEN /\ Ends(1, <<"Error: Could not find the transaction table">>)
          /\ UNCHANGED <<transactions, trx_idx>>
     ELSE IF soup[1].tbody[1] = <<>>
     THEN /\ Ends(0, <<"No transactions found in Amex file">>)
          /\ UNCHANGED <<transactions, trx_idx>>
     ELSE /\ transactions' = soup[1].tbody[1]
          /\ trx_idx' = Len(soup[1].tbody[1])
          /\ stdout' = Append(stdout, "Found " \o Digits2(Len(soup[1].tbody[1]))
                                        \o " Amex transactions")
          /\ pc' = "rows"
          /\ UNCHANGED exit_status
  /\ UNCHANGED <<amex_file, deliveroo_file, soup, year, order_list_items, item_idx, deliveroo_orders,
                 item_log, row_log>>

\* process_html_file, lines 140-155: find the table and its rows, open the
\* output and write the header
FindTable ==
  /\ pc = "find_table"
  /\ IF soup[1].tbody = None
     THEN /\ Ends(1, <<"Error: Could not find the transaction table">>)
          /\ UNCHANGED <<opens, transactions, trx_idx, csvfile>>
     ELSE IF soup[1].tbody[1] = <<>>
     THEN /\ Ends(0, <<"No transactions found in Amex file">>)
          /\ UNCHANGED <<opens, transactions, trx_idx, csvfile>>
     ELSE /\ transactions' = soup[1].tbody[1]
          /\ trx_idx' = Len(soup[1].tbody[1])
          /\ stdout' = Append(stdout, "Found " \o Digits2(Len(soup[1].tbody[1]))
                                        \o " Amex transactions")
          /\ opens' = Append(opens, "output_path")
          /\ csvfile' = <<HEADER>>
          /\ pc' = "rows"
          /\ UNCHANGED exit_status
  /\ UNCHANGED <<amex_file, deliveroo_file, soup, year, order_list_items, item_idx, deliveroo_orders,
                 item_log, row_log>>

\* process_html_file, lines 157-206: one pass of the loop over
\* reversed(transactions)
ProcessRow ==
  /\ pc = "rows"
  /\ trx_idx >= 1
  /\ \E r \in {process_row(transactions[trx_idx], year[1], deliveroo_orders)} :
         /\ row_log' = Append(row_log, [idx |-> trx_idx, outcome |-> r.outcome,
                                        printed |-> Len(r.printed),
                                        description |-> r.description,
                                        row |-> r.row, consumed |-> r.consumed])
         /\ deliveroo_orders' = r.deliveroo_orders
         /\ csvfile' = IF r.row /= None THEN Append(csvfile, r.row[1]) ELSE csvfile
         /\ trx_idx' = trx_idx - 1
         /\ IF r.outcome = "raised"
            THEN Ends(1, r.printed)
            ELSE stdout' = stdout \o r.printed /\ UNCHANGED <<pc, exit_status>>
  /\ UNCHANGED <<amex_file, deliveroo_file, opens, soup, year, order_list_items, item_idx, transactions,
                 item_log>>

\* process_html_file, lines 208-209: the loop is over
Finish ==
  /\ pc = "rows"
  /\ trx_idx = 0
  /\ Ends(0, <<"Successfully converted the statement", "You can now import this file into Gnucash">>)
  /\ UNCHANGED <<amex_file, deliveroo_file, opens, soup, year, order_list_items, item_idx, deliveroo_orders,
                 transactions, trx_idx, csvfile, item_log, row_log>>

Next ==
  \/ Main
  \/ OpenAmex
  \/ ParseYear
  \/ OpenDeliveroo
  \/ ParseItem
  \/ EndItems
  \/ FindTable
  \/ ProcessRow
  \/ Finish

Spec == Init /\ [][Next]_vars

(* ------------------------------------------------------------ properties *)
\* p is a prefix of s
IsPrefix(p, s) == Len(p) <= Len(s) /\ SubSeq(s, 1, Len(p)) = p

\* k occurs in s when letter case is disregarded
ContainsCI(k, s) ==
  \E lk \in {lower(k)} : \E ls \in {lower(s)} : Contains(lk, ls)

Range(s) == {s[i] : i \in 1..Len(s)}

\* thousandths rounded to whole pence, a half going up
RoundHalfUp2(v) == IF (v % 10) >= 5 THEN ((v \div 10) + 1) * 10 ELSE (v \div 10) * 10

\* the order item has a name, one separator, an amount and a date that parse
ItemParses(item) ==
  /\ item.name /= None
  /\ item.parts = 2
  /\ item.amount.kind = "num"
  /\ strptime(item.date.d, item.date.mon, item.date.y, MonthName) /= None

ItemKeyOf(item) ==
  <<strptime(item.date.d, item.date.mon, item.date.y, MonthName)[1], item.amount.v>>

\* the statement row has five columns, a date, a description and a finite
\* amount that parse
RowParses(trx) ==
  /\ trx.ncols >= 5
  /\ trx.date /= None
  /\ strptime(trx.date[1].d, trx.date[1].mon, year[1], MonthAbbr) /= None
  /\ trx.a /= None
  /\ trx.amount /= None
  /\ trx.amount[1].kind = "num"

RowPending(trx) == trx.ncols >= 2 /\ ContainsCI(PendingWord, trx.status)

RowIsDeliveroo(trx) == trx.a /= None /\ ContainsCI(DELIVEROO, trx.a[1])

\* (date, absolute amount rounded half-up to two decimals) of a parsed row
RowKeyOf(trx) ==
  <<strptime(trx.date[1].d, trx.date[1].mon, year[1], MonthAbbr)[1],
    RoundHalfUp2(IF trx.amount[1].v < 0 THEN 0 - trx.amount[1].v ELSE trx.amount[1].v)>>

\* the row of log entry j
Trx(j) == transactions[row_log[j].idx]

\* log entry j is a written delivery line
WrittenDelivery(j) ==
  /\ row_log[j].outcome = "written"
  /\ RowIsDeliveroo(Trx(j))
  /\ RowParses(Trx(j))

AddedItems == {i \in 1..Len(item_log) : item_log[i] = "added"}

LoadedUnder(key) ==
  Cardinality({i \in AddedItems : ItemKeyOf(order_list_items[i]) = key})

\* the CSV rows whose description was rewritten from the key
EnrichedRows(key) ==
  {j \in 1..Len(row_log) :
     /\ WrittenDelivery(j)
     /\ IsPrefix(DeliverooPrefix, row_log[j].row[1][2])
     /\ RowKeyOf(Trx(j)) = key}

StillListed(key) ==
  IF key \in DOMAIN deliveroo_orders THEN Len(deliveroo_orders[key]) ELSE 0

KeysKnown ==
  DOMAIN deliveroo_orders
    \cup {ItemKeyOf(order_list_items[i]) : i \in AddedItems}
    \cup {RowKeyOf(Trx(j)) : j \in {h \in 1..Len(row_log) : WrittenDelivery(h)}}

\* C1: every loaded delivery order is consumed at most once: for every key
\* (date, amount) the rows enriched from the key never outnumber the orders
\* loaded under it, and at every point rows enriched so far plus names
\* still listed equals the orders loaded under the key
C1_ConsumedAtMostOnce ==
  \A key \in KeysKnown :
    /\ Cardinality(EnrichedRows(key)) <= LoadedUnder(key)
    /\ Cardinality(EnrichedRows(key)) + StillListed(key) = LoadedUnder(key)

\* two orders under one key, both used up, a third matching row written
C1_Witness ==
  \E key \in KeysKnown :
    /\ LoadedUnder(key) = 2
    /\ Cardinality(EnrichedRows(key)) = 2
    /\ StillListed(key) = 0
    /\ Cardinality({j \in 1..Len(row_log) :
                      WrittenDelivery(j) /\ RowKeyOf(Trx(j)) = key}) = 3

\* the keywords of each rule in lower case
KeywordsLower ==
  [i \in 1..Len(ACCOUNT_RULES) |->
     [j \in 1..Len(ACCOUNT_RULES[i].keywords) |-> lower(ACCOUNT_RULES[i].keywords[j])]]

\* the rules one of whose keywords occurs in the description, letter case
\* disregarded, given the description in lower case
RulesMatchingLower(ls) ==
  {i \in 1..Len(ACCOUNT_RULES) :
     \E j \in 1..Len(KeywordsLower[i]) : Contains(KeywordsLower[i][j], ls)}

\* account is the one the claim names for a row with these descriptions
AccountAsClaimed(account, original, enriched) ==
  \E matching \in {RulesMatchingLower(lower(enriched))} :
    account = IF matching /= {}
              THEN ACCOUNT_RULES[CHOOSE i \in matching : \A h \in matching : i <= h].account
              ELSE IF ContainsCI(DELIVEROO, original) THEN "Despesas:Comida"
              ELSE "Não classificado"

\* C2: the account written for a row is the first account in declaration
\* order with a keyword occurring, case-insensitively, in the description
\* after enrichment; with no keyword it is Despesas:Comida for a DELIVEROO
\* line and "Não classificado" for any other
C2_FirstMatchAccount ==
  \A j \in 1..Len(row_log) :
    row_log[j].outcome = "written" =>
      AccountAsClaimed(row_log[j].row[1][3], Trx(j).a[1], row_log[j].description[1])

\* a row matching keywords of two accounts, and an enriched row whose
\* restaurant name carries a keyword, have been written
C2_Witness ==
  /\ \E j \in 1..Len(row_log) :
       /\ row_log[j].outcome = "written"
       /\ Cardinality(RulesMatchingLower(lower(row_log[j].description[1]))) >= 2
  /\ \E j \in 1..Len(row_log) :
       /\ row_log[j].outcome = "written"
       /\ row_log[j].consumed /= None
       /\ RulesMatchingLower(lower(Trx(j).a[1])) = {}
       /\ row_log[j].row[1][3] = "Despesas:Supermercado"

\* the rows of the statement that parse and are not pending
RowsDue == {i \in 1..Len(transactions) : RowParses(transactions[i]) /\ ~RowPending(transactions[i])}

\* row i of the statement was written to the CSV, once
WrittenOnce(i) ==
  Cardinality({j \in 1..Len(row_log) : row_log[j].idx = i /\ row_log[j].row /= None}) = 1

\* the run went through the whole statement stage and ended
StatementStageOver == pc = "done" /\ soup /= None /\ soup[1].tbody /= None

\* C3: a statement row that cannot be parsed is logged and skipped: the run
\* does not abort, one message is printed for it, no CSV row is written for
\* it, no delivery order is consumed by it, and every well-formed
\* non-pending row of the statement is still written
C3_MalformedRowSkipped ==
  /\ \A j \in 1..Len(row_log) :
       ~RowParses(Trx(j)) =>
         /\ row_log[j].outcome /= "raised"
         /\ row_log[j].printed = 1
         /\ row_log[j].row = None
         /\ row_log[j].consumed = None
  /\ (StatementStageOver /\ item_idx > Len(order_list_items) /\ "raised" \notin Range(item_log)) =>
       (exit_status = Some(0) /\ \A i \in RowsDue : WrittenOnce(i))

\* C4: an order item that cannot be parsed is logged and skipped: loading
\* does not abort the run, the item adds nothing to the lookup table, and
\* every well-formed item of the file is added
C4_MalformedItemSkipped ==
  /\ \A i \in 1..Len(item_log) :
       item_log[i] = IF ItemParses(order_list_items[i]) THEN "added" ELSE "skipped"
  /\ \A key \in DOMAIN deliveroo_orders :
       Cardinality(EnrichedRows(key)) + StillListed(key) = LoadedUnder(key)
  /\ pc \in {"find_table", "rows"} => Len(item_log) = Len(order_list_items)

\* the delivery-history file was missing or unreadable
HistoryUnavailable ==
  \E i \in 1..Len(stdout) :
    stdout[i] \in {"Warning: Deliveroo orders file not found",
                   "Warning: Could not read Deliveroo orders file"}

\* C5: a missing or unreadable delivery history degrades the run instead of
\* aborting it: the lookup table is empty, one CSV row is written for every
\* well-formed non-pending row, and every DELIVEROO row keeps its description
\* and goes to Despesas:Comida unless a keyword rule matches it
C5_MissingHistoryDegrades ==
  HistoryUnavailable =>
    /\ deliveroo_orders = <<>>
    /\ \A j \in 1..Len(row_log) :
         (row_log[j].outcome = "written" /\ RowIsDeliveroo(Trx(j))) =>
           /\ row_log[j].description = Trx(j).a
           /\ AccountAsClaimed(row_log[j].row[1][3], Trx(j).a[1], Trx(j).a[1])
    /\ StatementStageOver =>
         (exit_status = Some(0) /\ \A i \in RowsDue : WrittenOnce(i))

ErrorMessages ==
  {"Error: The Amex file was not found",
   "An error occurred while reading the Amex file",
   "Error: Could not find the transaction table",
   "Traceback: decimal.InvalidOperation"}

\* the statement file could not be opened or read
StatementUnavailable == opens /= <<>> /\ soup = None

\* the statement was read and has no transaction table
TableAbsent == soup /= None /\ soup[1].tbody = None

\* C6: when the statement cannot be opened or read, or has no transaction
\* table, the run prints an error message and ends with exit status 1
\* before the output is opened: no output file is created or overwritten
C6_AbortLeavesOutput ==
  /\ (StatementUnavailable \/ TableAbsent) =>
       (csvfile = <<>> /\ "output_path" \notin Range(opens))
  /\ (pc = "done" /\ (StatementUnavailable \/ TableAbsent)) =>
       /\ exit_status = Some(1)
       /\ stdout /= <<>>
       /\ stdout[Len(stdout)] \in ErrorMessages

\* a run ended at the missing table after loading a delivery history
C6_Witness ==
  /\ pc = "done"
  /\ TableAbsent
  /\ opens = <<"amex_path", "deliveroo_path">>
  /\ stdout[Len(stdout)] = "Error: Could not find the transaction table"

\* the output file exists and holds the header once, first, followed by
\* rows of six fields
OutputWellFormed ==
  /\ Cardinality({i \in 1..Len(opens) : opens[i] = "output_path"}) = 1
  /\ csvfile /= <<>>
  /\ csvfile[1] = HEADER
  /\ \A i \in 2..Len(csvfile) : Len(csvfile[i]) = 6 /\ csvfile[i][1] /= "Date"

FinishedWithoutAbort == pc = "done" /\ exit_status = Some(0)

RECURSIVE PlaceFrom(_, _)
PlaceFrom(path, i) ==
  IF i > Len(opens) THEN 0
  ELSE IF opens[i] = path THEN i ELSE PlaceFrom(path, i + 1)
Place(path) == PlaceFrom(path, 1)

\* no CSV row is written before both inputs have been loaded
RowsAfterBothLoaded ==
  Len(csvfile) > 1 =>
    /\ soup /= None
    /\ Place("deliveroo_path") /= 0
    /\ item_idx > Len(order_list_items)
    /\ pc \in {"rows", "done"}

RECURSIVE NamesUnder(_, _)
NamesUnder(key, n) ==
  IF n = 0 THEN <<>>
  ELSE IF n \in AddedItems /\ ItemKeyOf(order_list_items[n]) = key
       THEN Append(NamesUnder(key, n - 1), order_list_items[n].name[1])
       ELSE NamesUnder(key, n - 1)

\* the written delivery lines with the key among the first n log entries
MatchesBefore(key, n) ==
  Cardinality({h \in 1..n : WrittenDelivery(h) /\ RowKeyOf(Trx(h)) = key})

\* C9: rows are processed in reverse document order; a DELIVEROO row with
\* date d and absolute amount a rounded half-up to two decimals gets
\* "Deliveroo: <name>" for the earliest-loaded name still listed under
\* (d, a), which is removed, and keeps its description when none is listed:
\* the i-th matching row gets the i-th restaurant of the history, the
\* (k+1)-th of k is left as it was
C9_FifoMatching ==
  /\ \A j \in 1..Len(row_log) : row_log[j].idx = Len(transactions) - j + 1
  /\ \A j \in 1..Len(row_log) :
       WrittenDelivery(j) =>
         \E names \in {NamesUnder(RowKeyOf(Trx(j)), Len(item_log))} :
           \E m \in {MatchesBefore(RowKeyOf(Trx(j)), j - 1)} :
             row_log[j].description =
               Some(IF m < Len(names) THEN DeliverooPrefix \o names[m + 1]
                    ELSE Trx(j).a[1])
  /\ pc \in {"rows", "done"} =>
       \A key \in DOMAIN deliveroo_orders :
         \E names \in {NamesUnder(key, Len(item_log))} :
           \E m \in {MatchesBefore(key, Len(row_log))} :
             deliveroo_orders[key] =
               SubSeq(names, (IF m < Len(names) THEN m ELSE Len(names)) + 1, Len(names))

\* two restaurants under one key went to the first two matching rows in
\* history order and the third matching row kept its description
C9_Witness ==
  /\ Len(row_log) = 3
  /\ \A j \in 1..3 : WrittenDelivery(j) /\ RowKeyOf(Trx(j)) = RowKeyOf(Trx(1))
  /\ row_log[1].description /= row_log[2].description
  /\ row_log[1].consumed /= None
  /\ row_log[2].consumed /= None
  /\ row_log[3].description = Trx(3).a

\* C10: a pending row has no effect: it produces no CSV row and leaves the
\* lookup table as it was, whatever its description, date and amount
C10_PendingNoEffect ==
  [][(pc = "rows" /\ trx_idx >= 1 /\ RowPending(transactions[trx_idx])) =>
       (csvfile' = csvfile /\ deliveroo_orders' = deliveroo_orders)]_vars

\* a pending DELIVEROO row was passed over and a later settled row with the
\* same date and amount took the order
C10_Witness ==
  \E j \in 1..Len(row_log) : \E h \in 1..Len(row_log) :
    /\ j < h
    /\ row_log[j].outcome = "pending"
    /\ RowIsDeliveroo(Trx(j))
    /\ RowParses(Trx(j))
    /\ WrittenDelivery(h)
    /\ RowKeyOf(Trx(h)) = RowKeyOf(Trx(j))
    /\ row_log[h].consumed = Some(RowKeyOf(Trx(j)))
====
